---------------------------- MODULE Spec2Model ----------------------------
(***************************************************************************)
(* Model of scripts/heightmap_geodata.py: the conversion of an .xyz file   *)
(* of elevation samples into an 8-bit grayscale height map.                *)
(*                                                                         *)
(* Representation.                                                         *)
(*  - A real number is an exact rational <<n, d>> in lowest terms, d > 0.  *)
(*    The script computes with IEEE doubles; on the tokens of NumericTok   *)
(*    every difference, quotient and product the script forms gives the    *)
(*    same truncated integer in doubles as in exact arithmetic, so the     *)
(*    rounding of doubles is not part of the model.                        *)
(*  - A file name is a sequence of one-character strings.                  *)
(*  - A line of the input file is the sequence of its whitespace-separated *)
(*    tokens (what line.split() returns); a line that is blank after       *)
(*    line.strip() is the empty sequence.                                  *)
(*  - The input file is the environment: each ReadLine step draws the next *)
(*    line, ReadEOF ends the file; at most MaxLines lines are drawn.       *)
(***************************************************************************)
EXTENDS Integers, Sequences, FiniteSets, TLC

VARIABLES
    argv,         \* sys.argv, argv[1] the script name
    pc,           \* position of the run in the script
    err,          \* the uncaught exception that ended the run, and where
    exit_code,    \* exit status of the process once it has ended
    input_file,   \* line 11
    output_file,  \* line 17
    f,            \* state of the input file handle of line 22
    line,         \* the loop variable of line 23: the last line read
    nread,        \* number of lines read from the input file so far
    points,       \* line 20/27
    xs, ys,       \* lines 30-31
    width, height,      \* lines 33-34
    x_index, y_index,   \* lines 36-37
    z_min, z_max, z_range, z_norm,   \* lines 41-47
    pixels,       \* the raster of line 51-52, indexed by <<column, row>>
    i,            \* position of the loop of line 55 in points (1-based)
    value,        \* line 60
    out           \* what this run has done to the file at output_file

vars == <<argv, pc, err, exit_code, input_file, output_file, f, line, nread,
          points, xs, ys, width, height, x_index, y_index,
          z_min, z_max, z_range, z_norm, pixels, i, value, out>>

\* Largest number of lines the input file holds.
MaxLines == 4

\* A name that is not bound yet.
Unbound == <<>>

NoErr == [type |-> "", at |-> ""]

-----------------------------------------------------------------------------
(* Exact rationals standing for the script's floats.                       *)

Abs(n) == IF n < 0 THEN -n ELSE n

RECURSIVE GCD(_, _)
GCD(a, b) == IF b = 0 THEN a ELSE GCD(b, a % b)

\* n/d in lowest terms with a positive denominator (d # 0).
Rat(n, d) ==
    LET g == GCD(Abs(n), Abs(d))
        s == IF d < 0 THEN -1 ELSE 1
    IN  <<(s * n) \div g, (s * d) \div g>>

Zero == <<0, 1>>

\* a - b
RSub(a, b) == Rat(a[1] * b[2] - b[1] * a[2], a[2] * b[2])

\* a * b
RMul(a, b) == Rat(a[1] * b[1], a[2] * b[2])

\* a / b, b # 0
RDiv(a, b) == Rat(a[1] * b[2], a[2] * b[1])

\* a < b
RLess(a, b) == a[1] * b[2] < b[1] * a[2]

\* int(a): truncation toward zero
RTrunc(a) == IF a[1] >= 0 THEN a[1] \div a[2] ELSE -((-a[1]) \div a[2])

-----------------------------------------------------------------------------
(* File names: lines 13 and 17.                                            *)

LowerChar(c) ==
    CASE c = "A" -> "a"
      [] c = "X" -> "x"
      [] c = "Y" -> "y"
      [] c = "Z" -> "z"
      [] OTHER -> c

\* A lowering that leaves the name as it is: a check that forgets .lower().
LowerMutant(s) == s

\* str.lower()
Lower(s) == [k \in 1..Len(s) |-> LowerChar(s[k])]

\* str.endswith(suffix)
EndsWith(s, suffix) ==
    /\ Len(s) >= Len(suffix)
    /\ SubSeq(s, Len(s) - Len(suffix) + 1, Len(s)) = suffix

DotXyz == <<".", "x", "y", "z">>
DotPng == <<".", "p", "n", "g">>

\* The test of line 13, negated: the name passes the extension check.
HasXyzExtension(name) == EndsWith(Lower(name), DotXyz)

\* os.path.splitext(p)[0] for a name without directory separators: the name
\* up to its last dot, unless only dots precede that dot.
SplitExtRoot(p) ==
    LET dots == {k \in 1..Len(p) : p[k] = "."}
    IN  IF dots = {} THEN p
        ELSE LET dotIndex == CHOOSE k \in dots : \A m \in dots : m <= k
             IN  IF \E m \in 1..(dotIndex - 1) : p[m] # "."
                 THEN SubSeq(p, 1, dotIndex - 1)
                 ELSE p

\* Line 17.
OutputName(name) == SplitExtRoot(name) \o DotPng

-----------------------------------------------------------------------------
(* Parsing: lines 24-27.                                                   *)

NumericTok == {"0", "1", "1.0", "2", "10", "10.5", "20", "30", "40"}

\* float(tok) for the tokens float() accepts.
FloatOf(tok) ==
    CASE tok = "0"    -> <<0, 1>>
      [] tok = "1"    -> <<1, 1>>
      [] tok = "1.0"  -> <<1, 1>>
      [] tok = "2"    -> <<2, 1>>
      [] tok = "10"   -> <<10, 1>>
      [] tok = "10.5" -> <<21, 2>>
      [] tok = "20"   -> <<20, 1>>
      [] tok = "30"   -> <<30, 1>>
      [] tok = "40"   -> <<40, 1>>

\* float(tok) raises ValueError for any other token.
IsFloat(tok) == tok \in NumericTok

\* line.strip() is empty
IsBlank(l) == Len(l) = 0

\* A looser unpacking: the first three tokens of a longer line are taken.
UnpacksMutant(l) == Len(l) >= 3 /\ \A k \in 1..3 : IsFloat(l[k])

\* x, y, z = map(float, line.split()) succeeds: exactly three tokens, each
\* one accepted by float(); otherwise ValueError.
Unpacks(l) == Len(l) = 3 /\ \A k \in 1..Len(l) : IsFloat(l[k])

\* The tuple appended by line 27.
ParsePoint(l) == <<FloatOf(l[1]), FloatOf(l[2]), FloatOf(l[3])>>

\* The lines an input file is made of.
ValidLines ==
    { <<"0", "0", "10">>, <<"1", "0", "20">>, <<"0", "1", "30">>,
      <<"1", "1", "40">>, <<"1.0", "1", "40">>,
      <<"0", "0", "10.5">>, <<"1", "0", "10">>, <<"0", "1", "10">>,
      <<"2", "1", "30">> }
BlankLine == <<>>
MalformedLines ==
    { <<"1", "0">>, <<"a", "b", "c">>, <<"1", "0", "x">>,
      <<"1", "0", "20", "30">> }
Lines == ValidLines \cup {BlankLine} \cup MalformedLines

-----------------------------------------------------------------------------
(* Grid indexing: lines 30-37.                                             *)

Range(s) == {s[k] : k \in 1..Len(s)}

\* set(p[0] for p in points), set(p[1] for p in points)
XSet(pts) == {pts[k][1] : k \in 1..Len(pts)}
YSet(pts) == {pts[k][2] : k \in 1..Len(pts)}

\* sorted(S): the elements of S ascending
RECURSIVE Sorted(_)
Sorted(S) ==
    IF S = {} THEN <<>>
    ELSE LET m == CHOOSE m \in S : \A u \in S : ~RLess(u, m)
         IN  <<m>> \o Sorted(S \ {m})

\* The list a missing set() would sort: one entry per sample.
RECURSIVE SortedAll(_, _)
SortedAll(pts, c) ==
    IF pts = <<>> THEN <<>>
    ELSE LET m == CHOOSE m \in 1..Len(pts) :
                     \A u \in 1..Len(pts) : ~RLess(pts[u][c], pts[m][c])
         IN  <<pts[m][c]>> \o
             SortedAll([k \in 1..(Len(pts) - 1) |->
                           IF k < m THEN pts[k] ELSE pts[k + 1]], c)

AxisXMutant(pts) == SortedAll(pts, 1)

\* Lines 30 and 31.
AxisX(pts) == Sorted(XSet(pts))
AxisY(pts) == Sorted(YSet(pts))

\* {v: i for i, v in enumerate(axis)}, 0-based
IndexMap(axis) ==
    [v \in Range(axis) |-> (CHOOSE k \in 1..Len(axis) : axis[k] = v) - 1]

-----------------------------------------------------------------------------
(* Elevation range: lines 40-47.                                           *)

ZValues(pts) == [k \in 1..Len(pts) |-> pts[k][3]]

\* min(zs) and max(zs) of a non-empty list, as the built-ins fold it
RECURSIVE MinFrom(_, _, _)
MinFrom(zs, k, m) ==
    IF k > Len(zs) THEN m
    ELSE MinFrom(zs, k + 1, IF RLess(zs[k], m) THEN zs[k] ELSE m)

RECURSIVE MaxFrom(_, _, _)
MaxFrom(zs, k, m) ==
    IF k > Len(zs) THEN m
    ELSE MaxFrom(zs, k + 1, IF RLess(m, zs[k]) THEN zs[k] ELSE m)

\* A minimum that takes the first elevation instead of the smallest.
ZMinMutant(zs) == zs[1]

ZMin(zs) == MinFrom(zs, 2, zs[1])
ZMax(zs) == MaxFrom(zs, 2, zs[1])

\* A range found with a default: min(zs, default=0.0), max(zs, default=0.0).
ZStatsMutant(zs) ==
    IF Len(zs) = 0
    THEN [raises |-> FALSE, z_min |-> <<0, 1>>, z_max |-> <<0, 1>>]
    ELSE [raises |-> FALSE, z_min |-> ZMin(zs), z_max |-> ZMax(zs)]

\* Lines 41-42: min() of an empty list raises ValueError.
ZStats(zs) ==
    IF Len(zs) = 0
    THEN [raises |-> TRUE]
    ELSE [raises |-> FALSE, z_min |-> ZMin(zs), z_max |-> ZMax(zs)]

One == <<1, 1>>
R255 == <<255, 1>>

\* max(1.0, z_max - z_min)
ZRangeMutant(zmin, zmax) ==
    LET d == RSub(zmax, zmin) IN IF RLess(d, One) THEN One ELSE d

\* Line 43: z_max - z_min or 1.0; a float is falsy exactly when it is 0.0.
ZRange(zmin, zmax) ==
    LET d == RSub(zmax, zmin) IN IF d # Zero THEN d ELSE One

\* Line 47.
ZNorm(zrange) == RDiv(R255, zrange)

\* Line 60.
Quantize(z, zmin, znorm) == RTrunc(RMul(RSub(z, zmin), znorm))

-----------------------------------------------------------------------------
(* Rasterizing: lines 51-63.                                               *)

\* Image.new("L", (w, h)): every pixel 0.
NewImage(w, h) == [c \in (0..(w - 1)) \X (0..(h - 1)) |-> 0]

\* A row computed without the flip.
TargetRowMutant(h, py) == py

\* Line 63: the row a sample of y-index py is written to.
TargetRow(h, py) == h - 1 - py

\* A store that keeps the larger of the old and the new value.
StoreMutant(img, cell, v) ==
    [img EXCEPT ![cell] = IF img[cell] > v THEN img[cell] ELSE v]

\* A store that writes the whole column of the cell.
StoreColumnMutant(img, cell, v) ==
    [c \in DOMAIN img |-> IF c[1] = cell[1] THEN v ELSE img[c]]

\* pixels[px, row] = value
Store(img, cell, v) == [img EXCEPT ![cell] = v]


-----------------------------------------------------------------------------
(* The run.                                                                *)

Script == <<"s">>
NameLower == <<"a", ".", "x", "y", "z">>
NameUpper == <<"A", ".", "X", "Y", "Z">>
NameTxt   == <<"a", ".", "t", "x", "t">>
NameNoDot == <<"a", "x", "y", "z">>

ArgvSet ==
    { <<Script>>,
      <<Script, NameLower>>, <<Script, NameUpper>>,
      <<Script, NameTxt>>, <<Script, NameNoDot>>,
      <<Script, NameLower, NameLower>>, <<Script, NameTxt, NameTxt>> }

Init ==
    /\ argv \in ArgvSet
    /\ pc = "argc"
    /\ err = NoErr
    /\ exit_code = Unbound
    /\ input_file = Unbound
    /\ output_file = Unbound
    /\ f = "unopened"
    /\ line = Unbound
    /\ nread = 0
    /\ points = Unbound
    /\ xs = Unbound /\ ys = Unbound
    /\ width = Unbound /\ height = Unbound
    /\ x_index = Unbound /\ y_index = Unbound
    /\ z_min = Unbound /\ z_max = Unbound
    /\ z_range = Unbound /\ z_norm = Unbound
    /\ pixels = Unbound
    /\ i = 0
    /\ value = Unbound
    /\ out = "untouched"

\* An uncaught exception: the traceback is printed and the process ends
\* with status 1.
Raise(type) ==
    /\ err' = [type |-> type, at |-> pc]
    /\ pc' = "error"
    /\ exit_code' = 1

\* Lines 7-11.
CheckArgc ==
    /\ pc = "argc"
    /\ IF Len(argv) # 2
       THEN /\ pc' = "exit"
            /\ exit_code' = 1
            /\ UNCHANGED input_file
       ELSE /\ pc' = "ext"
            /\ input_file' = argv[2]
            /\ UNCHANGED exit_code
    /\ UNCHANGED <<argv, err, output_file, f, line, nread, points, xs, ys,
                   width, height, x_index, y_index, z_min, z_max, z_range,
                   z_norm, pixels, i, value, out>>

\* Lines 13-20.
CheckExt ==
    /\ pc = "ext"
    /\ IF ~HasXyzExtension(input_file)
       THEN /\ pc' = "exit"
            /\ exit_code' = 1
            /\ UNCHANGED <<output_file, points>>
       ELSE /\ pc' = "open"
            /\ output_file' = OutputName(input_file)
            /\ points' = <<>>
            /\ UNCHANGED exit_code
    /\ UNCHANGED <<argv, err, input_file, f, line, nread, xs, ys,
                   width, height, x_index, y_index, z_min, z_max, z_range,
                   z_norm, pixels, i, value, out>>

\* Line 22, the file can be opened.
OpenInput ==
    /\ pc = "open"
    /\ f' = "open"
    /\ pc' = "read"
    /\ UNCHANGED <<argv, err, exit_code, input_file, output_file, line, nread,
                   points, xs, ys, width, height, x_index, y_index, z_min,
                   z_max, z_range, z_norm, pixels, i, value, out>>

\* Line 22, open() raises (missing or unreadable file).
OpenInputFail ==
    /\ pc = "open"
    /\ Raise("OSError")
    /\ UNCHANGED <<argv, input_file, output_file, f, line, nread,
                   points, xs, ys, width, height, x_index, y_index, z_min,
                   z_max, z_range, z_norm, pixels, i, value, out>>

\* Lines 23-27, one iteration: the next line of the file is l.
ReadLine ==
    /\ pc = "read"
    /\ nread < MaxLines
    /\ \E l \in Lines :
        /\ line' = l
        /\ nread' = nread + 1
        /\ IF IsBlank(l)
           THEN UNCHANGED <<pc, err, exit_code, f, points>>
           ELSE IF Unpacks(l)
           THEN /\ points' = Append(points, ParsePoint(l))
                /\ UNCHANGED <<pc, err, exit_code, f>>
           ELSE /\ Raise("ValueError")
                /\ f' = "closed"
                /\ UNCHANGED points
    /\ UNCHANGED <<argv, input_file, output_file, xs, ys, width, height,
                   x_index, y_index, z_min, z_max, z_range, z_norm, pixels,
                   i, value, out>>

\* Line 23 at the end of the file: the loop and the with block end.
ReadEOF ==
    /\ pc = "read"
    /\ f' = "closed"
    /\ pc' = "index"
    /\ UNCHANGED <<argv, err, exit_code, input_file, output_file, line, nread,
                   points, xs, ys, width, height, x_index, y_index, z_min,
                   z_max, z_range, z_norm, pixels, i, value, out>>

\* Lines 30-37.
BuildGrids ==
    /\ pc = "index"
    /\ xs' = AxisX(points)
    /\ ys' = AxisY(points)
    /\ width' = Len(xs')
    /\ height' = Len(ys')
    /\ x_index' = IndexMap(xs')
    /\ y_index' = IndexMap(ys')
    /\ pc' = "normalize"
    /\ UNCHANGED <<argv, err, exit_code, input_file, output_file, f, line,
                   nread, points, z_min, z_max, z_range, z_norm, pixels, i,
                   value, out>>

\* Lines 40-48.
Normalize ==
    /\ pc = "normalize"
    /\ LET s == ZStats(ZValues(points))
       IN  IF s.raises
           THEN /\ Raise("ValueError")
                /\ UNCHANGED <<z_min, z_max, z_range, z_norm>>
           ELSE /\ z_min' = s.z_min
                /\ z_max' = s.z_max
                /\ z_range' = ZRange(z_min', z_max')
                /\ z_norm' = ZNorm(z_range')
                /\ pc' = "create"
                /\ UNCHANGED <<err, exit_code>>
    /\ UNCHANGED <<argv, input_file, output_file, f, line, nread, points,
                   xs, ys, width, height, x_index, y_index, pixels, i, value,
                   out>>

\* Lines 51-52.
CreateImage ==
    /\ pc = "create"
    /\ pixels' = NewImage(width, height)
    /\ i' = 1
    /\ pc' = "fill"
    /\ UNCHANGED <<argv, err, exit_code, input_file, output_file, f, line,
                   nread, points, xs, ys, width, height, x_index, y_index,
                   z_min, z_max, z_range, z_norm, value, out>>

\* Lines 55-63, one iteration, for the sample points[i].
FillPixel ==
    /\ pc = "fill"
    /\ i <= Len(points)
    /\ LET p  == points[i]
           px == x_index[p[1]]
           py == y_index[p[2]]
           v  == Quantize(p[3], z_min, z_norm)
       IN  /\ value' = v
           /\ pixels' = Store(pixels, <<px, TargetRow(height, py)>>, v)
    /\ i' = i + 1
    /\ UNCHANGED <<argv, pc, err, exit_code, input_file, output_file, f, line,
                   nread, points, xs, ys, width, height, x_index, y_index,
                   z_min, z_max, z_range, z_norm, out>>

\* Line 55, the list is exhausted.
FillDone ==
    /\ pc = "fill"
    /\ i > Len(points)
    /\ pc' = "save"
    /\ UNCHANGED <<argv, err, exit_code, input_file, output_file, f, line,
                   nread, points, xs, ys, width, height, x_index, y_index,
                   z_min, z_max, z_range, z_norm, pixels, i, value, out>>

\* Line 66, img.save opens output_file for writing: the file now exists
\* and is empty.
SaveOpen ==
    /\ pc = "save"
    /\ out' = "partial"
    /\ pc' = "saving"
    /\ UNCHANGED <<argv, err, exit_code, input_file, output_file, f, line,
                   nread, points, xs, ys, width, height, x_index, y_index,
                   z_min, z_max, z_range, z_norm, pixels, i, value>>

\* Line 66, the destination cannot be created.
SaveOpenFail ==
    /\ pc = "save"
    /\ Raise("OSError")
    /\ UNCHANGED <<argv, input_file, output_file, f, line,
                   nread, points, xs, ys, width, height, x_index, y_index,
                   z_min, z_max, z_range, z_norm, pixels, i, value, out>>

\* Lines 66-67, the image is written in full and the run ends.
SaveWrite ==
    /\ pc = "saving"
    /\ out' = "complete"
    /\ pc' = "done"
    /\ exit_code' = 0
    /\ UNCHANGED <<argv, err, input_file, output_file, f, line,
                   nread, points, xs, ys, width, height, x_index, y_index,
                   z_min, z_max, z_range, z_norm, pixels, i, value>>

\* Line 66, writing fails part-way (disk full, I/O error).  The script
\* handles nothing; the image library either leaves the file as far as it
\* was written or removes it.
SaveFail ==
    /\ pc = "saving"
    /\ Raise("OSError")
    /\ out' \in {"partial", "removed"}
    /\ UNCHANGED <<argv, input_file, output_file, f, line,
                   nread, points, xs, ys, width, height, x_index, y_index,
                   z_min, z_max, z_range, z_norm, pixels, i, value>>

Next ==
    \/ CheckArgc
    \/ CheckExt
    \/ OpenInput
    \/ OpenInputFail
    \/ ReadLine
    \/ ReadEOF
    \/ BuildGrids
    \/ Normalize
    \/ CreateImage
    \/ FillPixel
    \/ FillDone
    \/ SaveOpen
    \/ SaveOpenFail
    \/ SaveWrite
    \/ SaveFail

Spec == Init /\ [][Next]_vars

-----------------------------------------------------------------------------
(* Vocabulary of the properties.                                           *)

\* The stage the run is in, or was in when it failed.
Stage == IF pc = "error" THEN err.at ELSE pc

Indexed    == Stage \in {"normalize", "create", "fill", "save", "saving", "done"}
Normalized == Stage \in {"create", "fill", "save", "saving", "done"}
Allocated  == Stage \in {"fill", "save", "saving", "done"}
Filled     == Stage \in {"save", "saving", "done"}

NSamples == Len(points)

\* 0-based rank of v among the distinct values of S.
Rank(v, S) == Cardinality({u \in S : RLess(u, v)})

\* The output cell <<column, row>> of sample k.
CellOf(k) ==
    <<Rank(points[k][1], XSet(points)),
      Cardinality(YSet(points)) - 1 - Rank(points[k][2], YSet(points))>>

\* floor((z - z_min) * scale)
Intensity(z) ==
    LET r == RMul(RSub(z, z_min), z_norm) IN r[1] \div r[2]

DistinctXY ==
    \A a, b \in 1..NSamples : a # b => <<points[a][1], points[a][2]>>
                                        # <<points[b][1], points[b][2]>>

LessEq(a, b) == ~RLess(b, a)

ExamplePoints ==
    << <<<<0, 1>>, <<0, 1>>, <<10, 1>>>>, <<<<1, 1>>, <<0, 1>>, <<20, 1>>>>,
       <<<<0, 1>>, <<1, 1>>, <<30, 1>>>>, <<<<1, 1>>, <<1, 1>>, <<40, 1>>>> >>

ExampleGrid ==
    [c \in (0..1) \X (0..1) |->
        CASE c = <<0, 0>> -> 170
          [] c = <<1, 0>> -> 255
          [] c = <<0, 1>> -> 0
          [] c = <<1, 1>> -> 85]

-----------------------------------------------------------------------------
\* C1: when the samples have pairwise distinct (x, y), after the rasterize
\* loop every sample's pixel, at column rank(x) and row height-1-rank(y),
\* holds floor((z - z_min) * scale); the smallest y is in the bottom row and
\* the largest y in row 0; the four-sample example gives
\* row0 = [170, 255], row1 = [0, 85].
C1_PixelOfEverySample ==
    (Filled /\ NSamples > 0 /\ DistinctXY) =>
        /\ \A k \in 1..NSamples :
              /\ CellOf(k) \in DOMAIN pixels
              /\ pixels[CellOf(k)] = Intensity(points[k][3])
              /\ (\A j \in 1..NSamples : LessEq(points[k][2], points[j][2]))
                    => CellOf(k)[2] = height - 1
                       /\ pixels[<<x_index[points[k][1]], height - 1>>]
                            = Intensity(points[k][3])
              /\ (\A j \in 1..NSamples : LessEq(points[j][2], points[k][2]))
                    => pixels[<<x_index[points[k][1]], 0>>]
                            = Intensity(points[k][3])
        /\ (NSamples = 4 /\ Range(points) = Range(ExamplePoints))
              => pixels = ExampleGrid

C1_Witness ==
    /\ pc = "done"
    /\ points = ExamplePoints
    /\ pixels = ExampleGrid

\* C2 as stated: the factor is 255 / max(1.0, z_max - z_min).
C2_ScaleUsesMaxWithOne ==
    (Normalized /\ NSamples > 0) =>
        LET d == RSub(z_max, z_min)
        IN  RMul(z_norm, IF RLess(d, One) THEN One ELSE d) = R255

\* C2, amended: z_min and z_max are the least and the greatest z of the
\* samples, and the factor is 255 / (z_max - z_min) when z_max # z_min and
\* 255 / 1.0 when z_max = z_min; so for 0 < z_max - z_min < 1 the divisor is
\* z_max - z_min and the factor exceeds 255.
C2_ScaleUsesDifferenceOrOne ==
    (Normalized /\ NSamples > 0) =>
        LET d == RSub(z_max, z_min)
        IN  /\ \E k \in 1..NSamples : points[k][3] = z_min
            /\ \E k \in 1..NSamples : points[k][3] = z_max
            /\ \A k \in 1..NSamples :
                  LessEq(z_min, points[k][3]) /\ LessEq(points[k][3], z_max)
            /\ z_range = (IF z_max = z_min THEN One ELSE d)
            /\ RMul(z_norm, z_range) = R255
            /\ (RLess(Zero, d) /\ RLess(d, One)) =>
                  z_range = d /\ RLess(R255, z_norm)

C2_Witness ==
    /\ pc = "done"
    /\ RLess(Zero, RSub(z_max, z_min))
    /\ RLess(RSub(z_max, z_min), One)

\* C3: for a non-empty input the image is as wide as there are distinct x
\* values and as high as there are distinct y values, whatever the order and
\* the duplicates; one sample gives a 1x1 image.
C3_ImageSize ==
    /\ (Indexed /\ NSamples > 0) =>
          /\ width = Cardinality(XSet(points))
          /\ height = Cardinality(YSet(points))
          /\ NSamples = 1 => (width = 1 /\ height = 1)
    /\ (Allocated /\ NSamples > 0) =>
          DOMAIN pixels = (0..(Cardinality(XSet(points)) - 1))
                             \X (0..(Cardinality(YSet(points)) - 1))

C3_Witness ==
    /\ pc = "done"
    /\ NSamples = 4
    /\ width = 2
    /\ height = 1

\* Samples a and b have the same (x, y), and so the same output cell.
SameXY(a, b) ==
    points[a][1] = points[b][1] /\ points[a][2] = points[b][2]

\* Sample k is the last of the first n samples with its (x, y).
LastOfItsCell(k, n) == \A m \in (k + 1)..n : ~SameXY(k, m)

\* C4: pixels are written in input order: once the first n samples are
\* rasterized, the cell of each holds the intensity of the last of them
\* with that (x, y), and in the final grid that of the last sample of the
\* input with that (x, y); overwritten samples still count for z_min and
\* z_max.
C4_LastWriteWins ==
    (Allocated /\ NSamples > 0) =>
        /\ \A k \in 1..(i - 1) :
              LastOfItsCell(k, i - 1) =>
                  pixels[CellOf(k)] = Intensity(points[k][3])
        /\ Filled => i - 1 = NSamples
        /\ \A k \in 1..NSamples :
              LessEq(z_min, points[k][3]) /\ LessEq(points[k][3], z_max)

C4_Witness ==
    /\ pc = "done"
    /\ \E a, b \in 1..NSamples :
          /\ a < b
          /\ SameXY(a, b)
          /\ LastOfItsCell(b, NSamples)
          /\ points[a][3] = z_max
          /\ points[b][3] # z_max
          /\ pixels[CellOf(a)] = Intensity(points[b][3])
          /\ pixels[CellOf(a)] < 255

\* C5, at every point of the run: a cell no sample maps to holds 0, and
\* every cell holds 0 when the raster has just been allocated.
C5_UnsampledCellsAreZero ==
    Allocated =>
        /\ \A c \in DOMAIN pixels :
              (\A k \in 1..NSamples : CellOf(k) # c) => pixels[c] = 0
        /\ i = 1 => \A c \in DOMAIN pixels : pixels[c] = 0

\* C5, one rasterize step: only the cell of the sample it handles changes.
C5_StepWritesOneCell ==
    (pc = "fill" /\ i' = i + 1) =>
        /\ DOMAIN pixels' = DOMAIN pixels
        /\ \A c \in DOMAIN pixels : c # CellOf(i) => pixels'[c] = pixels[c]

\* C5: every cell starts at 0, a rasterize step for one sample changes only
\* that sample's cell, and so a cell no sample maps to holds 0 throughout.
C5_Frame == []C5_UnsampledCellsAreZero /\ [][C5_StepWritesOneCell]_vars

C5_Witness ==
    /\ pc = "done"
    /\ \E c \in DOMAIN pixels : \A k \in 1..NSamples : CellOf(k) # c
    /\ \E c \in DOMAIN pixels : pixels[c] > 0

\* C6: every intensity computed and written lies in 0..255 without a clamp:
\* 0 for a sample at z_min, at most 255 for a sample at z_max, for every
\* z-range, 0 and the ranges below 1 included.
C6_IntensityIn8Bits ==
    (Allocated /\ NSamples > 0) =>
        /\ \A c \in DOMAIN pixels : pixels[c] \in 0..255
        /\ i > 1 =>
              /\ value \in 0..255
              /\ value = Intensity(points[i - 1][3])
              /\ points[i - 1][3] = z_min => value = 0
        /\ \A k \in 1..NSamples : Intensity(points[k][3]) \in 0..255

C6_Witness ==
    /\ pc = "done"
    /\ RLess(Zero, RSub(z_max, z_min))
    /\ RLess(RSub(z_max, z_min), One)
    /\ points[NSamples][3] = z_max
    /\ value = 255

\* A non-blank line that is not three numeric tokens.
Malformed(l) ==
    /\ Len(l) > 0
    /\ \/ Len(l) < 3
       \/ Len(l) > 3
       \/ \E k \in 1..Len(l) : l[k] \notin NumericTok

\* C7, state part: once a malformed line has been read the run is aborted
\* with a ValueError raised in the read loop; no later stage has run and the
\* output file is untouched.
C7_MalformedAborts ==
    (nread > 0 /\ Malformed(line)) =>
        /\ pc = "error"
        /\ err = [type |-> "ValueError", at |-> "read"]
        /\ exit_code = 1
        /\ xs = Unbound /\ ys = Unbound
        /\ width = Unbound /\ height = Unbound
        /\ z_min = Unbound /\ z_norm = Unbound
        /\ pixels = Unbound
        /\ out = "untouched"

\* C7, step part: reading a malformed line aborts at that line, keeping the
\* samples read before it; reading a blank line raises nothing and adds no
\* sample.
C7_ReadStep ==
    (pc = "read" /\ nread' = nread + 1) =>
        /\ Malformed(line') => (pc' = "error" /\ points' = points)
        /\ IsBlank(line') => (pc' = "read" /\ err' = err /\ points' = points)
        /\ (~Malformed(line') /\ ~IsBlank(line')) =>
              (pc' = "read" /\ Len(points') = Len(points) + 1)

\* C7: a non-blank line that is not exactly three numeric tokens aborts the
\* run at the first such line, wherever it is; no index, normalize,
\* rasterize or write stage runs and no output file is created; blank lines
\* never cause the error and contribute no sample.
C7_FormatError == []C7_MalformedAborts /\ [][C7_ReadStep]_vars

C7_Witness ==
    /\ pc = "error"
    /\ Len(line) > 3
    /\ Malformed(line)
    /\ NSamples >= 2
    /\ nread > NSamples + 1

\* C8: after a failed run the output path holds no partial file.
C8_NoPartialOutput ==
    pc = "error" => out \in {"untouched", "removed", "complete"}

\* The name ends in .xyz, in any mix of cases.
EndsInXyzAnyCase(name) ==
    /\ Len(name) >= 4
    /\ name[Len(name) - 3] = "."
    /\ name[Len(name) - 2] \in {"x", "X"}
    /\ name[Len(name) - 1] \in {"y", "Y"}
    /\ name[Len(name)] \in {"z", "Z"}

BadArgs == Len(argv) # 2 \/ ~EndsInXyzAnyCase(argv[2])

\* C9: with an argument count other than one, or a name that does not end in
\* .xyz case-insensitively, the run ends with exit code 1 before the input is
\* opened and before any output is written; the count is checked before the
\* extension; INPUT.XYZ-like names pass the extension check.
C9_UsageError ==
    /\ BadArgs =>
          /\ pc \in {"argc", "ext", "exit"}
          /\ f = "unopened"
          /\ out = "untouched"
          /\ pc = "exit" => exit_code = 1
    /\ Len(argv) # 2 => pc \in {"argc", "exit"}
    /\ ~BadArgs => pc # "exit"
    /\ (Len(argv) = 2 /\ argv[2] = NameUpper) => pc # "exit"

C9_Witness ==
    /\ pc = "exit"
    /\ exit_code = 1
    /\ Len(argv) = 2
    /\ argv[2] = NameNoDot

\* C10: with no samples, parsing and indexing succeed with width = height =
\* 0, the run fails in the normalize stage with the ValueError of min() of an
\* empty list, no raster is allocated and no output file is written.
C10_EmptyInput ==
    (Stage \in {"index", "normalize", "create", "fill", "save", "saving",
                "done"} /\ NSamples = 0) =>
        /\ Stage \in {"index", "normalize"}
        /\ pc = "error" => err = [type |-> "ValueError", at |-> "normalize"]
        /\ Stage = "normalize" => (width = 0 /\ height = 0)
        /\ pixels = Unbound
        /\ out = "untouched"

C10_Witness ==
    /\ pc = "error"
    /\ err.at = "normalize"
    /\ NSamples = 0
    /\ nread > 0

=============================================================================
